---------------------------- MODULE Spec2Model ----------------------------
(***************************************************************************)
(* The packed ABI encoder of ethtool (src/src/abi.rs, src/src/util.rs).    *)
(*                                                                         *)
(* A Rust &str is a sequence of one-character strings, a Vec<u8> a         *)
(* sequence of numbers in 0..255.  A Result is a record whose kind is      *)
(* "Ok" or "Err"; an encoder may also end in "Panic" (the process          *)
(* unwinds, nothing is returned).  Arbitrary-precision integers are the    *)
(* big-endian base-256 digit sequences num-bigint converts them to, so     *)
(* that 256-bit values never pass through a machine integer.               *)
(***************************************************************************)
EXTENDS Integers, Sequences, FiniteSets, TLC

\* ------------------------------------------------------------------ bounds

\* Integer values 0..MaxValue are tried (with either sign) against every width.
MaxValue == 300
\* Hex values of up to MaxHexLen characters are tried against every bytesN.
MaxHexLen == 4
\* Type-name sizes 0..MaxSizeArg are tried after every prefix.
MaxSizeArg == 40
\* A field list holds up to MaxFields fields.
MaxFields == 3

\* ----------------------------------------------------------------- strings

Digits == <<"0", "1", "2", "3", "4", "5", "6", "7", "8", "9">>

IsDigit(c) == \E i \in 1..10 : Digits[i] = c

DigitVal(c) == (CHOOSE i \in 1..10 : Digits[i] = c) - 1

RECURSIVE NatToStr(_)
\* The decimal numeral of n, as Display for an integer prints it.
NatToStr(n) ==
    IF n < 10 THEN <<Digits[n + 1]>>
    ELSE Append(NatToStr(n \div 10), Digits[(n % 10) + 1])

\* str::starts_with
StartsWith(s, p) == Len(p) <= Len(s) /\ SubSeq(s, 1, Len(p)) = p

RECURSIVE TrimStartMatches(_, _)
\* str::trim_start_matches: the prefix is removed REPEATEDLY, as long as the
\* rest still starts with it.
TrimStartMatches(s, p) ==
    IF p # <<>> /\ StartsWith(s, p)
    THEN TrimStartMatches(SubSeq(s, Len(p) + 1, Len(s)), p)
    ELSE s

\* str::split on a one-character pattern, collected: n separators give n+1
\* pieces (the k-th lies between the (k-1)-th and the k-th separator), and
\* the empty string gives one empty piece.
Split(s, sep) ==
    LET P == {i \in 1..Len(s) : s[i] = sep}
        n == Cardinality(P)
        at(k) == IF k = 0 THEN 0
                 ELSE IF k = n + 1 THEN Len(s) + 1
                 ELSE CHOOSE i \in P : Cardinality({j \in P : j <= i}) = k
    IN [k \in 1..(n + 1) |-> SubSeq(s, at(k - 1) + 1, at(k) - 1)]

\* --------------------------------------------------------------- results

Ok(v) == [kind |-> "Ok", val |-> v]
Err(e) == [kind |-> "Err", err |-> e]
Panic == [kind |-> "Panic"]

IOError == [tag |-> "IOError"]
InvalidSize(n) == [tag |-> "InvalidSize", size |-> n]
InvalidFieldType(name) == [tag |-> "InvalidFieldType", name |-> name]
InvalidFieldDefinition == [tag |-> "InvalidFieldDefinition"]
InvalidValue(msg) == [tag |-> "InvalidValue", msg |-> msg]
ByteSizeMismatch == [tag |-> "ByteSizeMismatch"]
Unimplemented == [tag |-> "Unimplemented"]

\* From<std::num::ParseIntError>, From<num_bigint::ParseBigIntError> and
\* From<hex::FromHexError>: what the ? operator turns a library error into.
FromParseIntError(e) == InvalidValue(e)
FromParseBigIntError(e) == InvalidValue(e)
FromHexError(e) == IOError

\* The descriptors (enum ABIField).
Address == [tag |-> "Address"]
Boolean == [tag |-> "Boolean"]
String == [tag |-> "String"]
Bytes == [tag |-> "Bytes"]
BytesN(size) == [tag |-> "BytesN", size |-> size]
IntN(size) == [tag |-> "IntN", size |-> size]
UintN(size) == [tag |-> "UintN", size |-> size]
FixedN(m, n) == [tag |-> "FixedN", m |-> m, n |-> n]
UFixedN(m, n) == [tag |-> "UFixedN", m |-> m, n |-> n]

\* ------------------------------------------------------- library parsing

U16Max == 65535

RECURSIVE ParseU16Digits(_, _, _)
ParseU16Digits(s, i, acc) ==
    IF i > Len(s) THEN Ok(acc)
    ELSE IF ~IsDigit(s[i]) THEN Err("invalid digit found in string")
    ELSE LET next == acc * 10 + DigitVal(s[i]) IN
         IF next > U16Max THEN Err("number too large to fit in target type")
         ELSE ParseU16Digits(s, i + 1, next)

\* str::parse::<u16>: one optional '+', then at least one decimal digit; a
\* value above 65535 is an error (PosOverflow), never a truncation.
ParseU16(s) ==
    IF s = <<>> THEN Err("cannot parse integer from empty string")
    ELSE LET body == IF s[1] = "+" THEN SubSeq(s, 2, Len(s)) ELSE s IN
         IF body = <<>> THEN Err("invalid digit found in string")
         ELSE ParseU16Digits(body, 1, 0)

\* ------------------------------------------------- type descriptor parser

\* The type-name prefixes the parser knows.
P_bytes == <<"b", "y", "t", "e", "s">>
P_int == <<"i", "n", "t">>
P_uint == <<"u", "i", "n", "t">>
P_fixed == <<"f", "i", "x", "e", "d">>
P_ufixed == <<"u", "f", "i", "x", "e", "d">>
S_address == <<"a", "d", "d", "r", "e", "s", "s">>
S_bool == <<"b", "o", "o", "l">>
S_string == <<"s", "t", "r", "i", "n", "g">>

field_size_from_name(prefix, name) ==
    LET stripped == TrimStartMatches(name, prefix) IN
    IF Len(stripped) = 0 THEN Ok(0)
    ELSE LET parsed == ParseU16(stripped) IN
         IF parsed.kind = "Err" THEN Err(FromParseIntError(parsed.err))
         ELSE Ok(parsed.val)

fixed_field_size_from_name(prefix, name) ==
    LET stripped == TrimStartMatches(name, prefix) IN
    IF Len(stripped) = 0 THEN Err(InvalidFieldDefinition)
    ELSE LET sizes == Split(stripped, "x") IN
         IF Len(sizes) # 2 THEN Err(InvalidFieldDefinition)
         ELSE LET m == ParseU16(sizes[1]) IN
              IF m.kind = "Err" THEN Err(FromParseIntError(m.err))
              ELSE LET n == ParseU16(sizes[2]) IN
                   IF n.kind = "Err" THEN Err(FromParseIntError(n.err))
                   ELSE Ok(<<m.val, n.val>>)

parse_bytes(s) ==
    LET r == field_size_from_name(P_bytes, s) IN
    IF r.kind = "Err" THEN r
    ELSE IF r.val = 0 THEN Ok(Bytes)
    ELSE IF r.val <= 32 THEN Ok(BytesN(r.val))
    ELSE Err(InvalidSize(r.val))

parse_int(s) ==
    LET r == field_size_from_name(P_int, s) IN
    IF r.kind = "Err" THEN r
    ELSE IF r.val = 0 THEN Ok(IntN(256))
    ELSE IF r.val <= 256 /\ r.val % 8 = 0 THEN Ok(IntN(r.val))
    ELSE Err(InvalidSize(r.val))

\* parse_uint without the test that the width is a multiple of 8.
parse_uint_any_width(s) ==
    LET r == field_size_from_name(P_uint, s) IN
    IF r.kind = "Err" THEN r
    ELSE IF r.val = 0 THEN Ok(UintN(256))
    ELSE IF r.val <= 256 THEN Ok(UintN(r.val))
    ELSE Err(InvalidSize(r.val))

parse_uint(s) ==
    LET r == field_size_from_name(P_uint, s) IN
    IF r.kind = "Err" THEN r
    ELSE IF r.val = 0 THEN Ok(UintN(256))
    ELSE IF r.val <= 256 /\ r.val % 8 = 0 THEN Ok(UintN(r.val))
    ELSE Err(InvalidSize(r.val))

\* parse_fixed without the bound on the number of decimals.
parse_fixed_any_n(s) ==
    LET r == fixed_field_size_from_name(P_fixed, s) IN
    IF r.kind = "Err" THEN r
    ELSE LET m == r.val[1]
             n == r.val[2] IN
         IF m < 8 \/ m > 256 \/ m % 8 # 0 THEN Err(InvalidSize(m))
         ELSE Ok(FixedN(m, n))

parse_fixed(s) ==
    LET r == fixed_field_size_from_name(P_fixed, s) IN
    IF r.kind = "Err" THEN r
    ELSE LET m == r.val[1]
             n == r.val[2] IN
         IF m < 8 \/ m > 256 \/ m % 8 # 0 THEN Err(InvalidSize(m))
         ELSE IF n > 80 THEN Err(InvalidSize(n))
         ELSE Ok(FixedN(m, n))

\* parse_ufixed hands the prefix "fixed", not "ufixed", to
\* fixed_field_size_from_name (abi.rs:126).
parse_ufixed(s) ==
    LET r == fixed_field_size_from_name(P_fixed, s) IN
    IF r.kind = "Err" THEN r
    ELSE LET m == r.val[1]
             n == r.val[2] IN
         IF m < 8 \/ m > 256 \/ m % 8 # 0 THEN Err(InvalidSize(m))
         ELSE IF n > 80 THEN Err(InvalidSize(n))
         ELSE Ok(UFixedN(m, n))

\* impl FromStr for ABIField: the prefixes are tried in the source's order.
from_str(s) ==
    IF s = S_address THEN Ok(Address)
    ELSE IF s = S_bool THEN Ok(Boolean)
    ELSE IF s = S_string THEN Ok(String)
    ELSE IF StartsWith(s, P_bytes) THEN parse_bytes(s)
    ELSE IF StartsWith(s, P_int) THEN parse_int(s)
    ELSE IF StartsWith(s, P_uint) THEN parse_uint(s)
    ELSE IF StartsWith(s, P_fixed) THEN parse_fixed(s)
    ELSE IF StartsWith(s, P_ufixed) THEN parse_ufixed(s)
    ELSE Err(InvalidFieldType(s))

\* --------------------------------------------------------- big integers

RECURSIVE NatBytes(_)
NatBytes(n) == IF n = 0 THEN <<>> ELSE Append(NatBytes(n \div 256), n % 256)

RECURSIVE MulAdd256(_, _, _)
\* b * m + c on a big-endian base-256 magnitude without leading zeros.
MulAdd256(b, m, c) ==
    IF b = <<>> THEN NatBytes(c)
    ELSE LET t == b[Len(b)] * m + c IN
         Append(MulAdd256(SubSeq(b, 1, Len(b) - 1), m, t \div 256), t % 256)

\* from_radix_digits_be takes the digits in chunks of a fixed number of
\* digits (a power of the radix that fits a machine word) and, for each
\* chunk, multiplies what it has by that power and adds the chunk.
ChunkDigits == 6
ChunkBase == 1000000

RECURSIVE ChunkVal(_, _, _)
\* The value of the digits s[lo..hi].
ChunkVal(s, lo, hi) ==
    IF hi < lo THEN 0 ELSE ChunkVal(s, lo, hi - 1) * 10 + DigitVal(s[hi])

RECURSIVE MagFromChunks(_, _, _)
\* acc, then the chunks of s from index i on.
MagFromChunks(s, i, acc) ==
    IF i > Len(s) THEN acc
    ELSE LET next == MulAdd256(acc, ChunkBase,
                               ChunkVal(s, i, i + ChunkDigits - 1)) IN
         IF Len(next) >= 0 THEN MagFromChunks(s, i + ChunkDigits, next)
         ELSE <<>>

MagFromDigits(s) ==
    IF \E i \in 1..Len(s) : ~IsDigit(s[i])
    THEN Err("invalid digit found in string")
    ELSE LET r == Len(s) % ChunkDigits
             head == IF r = 0 THEN ChunkDigits ELSE r IN
         Ok(MagFromChunks(s, head + 1, NatBytes(ChunkVal(s, 1, head))))

\* BigUint::from_str (radix 10): one optional '+', then at least one decimal
\* digit.  The value is its magnitude, big-endian, no leading zero bytes
\* (zero is the empty sequence).
BigUint_from_str(s) ==
    LET body == IF s # <<>> /\ s[1] = "+"
                   /\ ~(Len(s) >= 2 /\ s[2] = "+")
                THEN SubSeq(s, 2, Len(s)) ELSE s IN
    IF body = <<>> THEN Err("cannot parse integer from empty string")
    ELSE MagFromDigits(body)

\* BigInt::from_str: an optional '-' before what BigUint::from_str reads; a
\* zero magnitude has no sign.
BigInt_from_str(s) ==
    LET neg == s # <<>> /\ s[1] = "-"
        body == IF neg /\ ~(Len(s) >= 2 /\ s[2] = "+")
                THEN SubSeq(s, 2, Len(s)) ELSE s
        mag == BigUint_from_str(body) IN
    IF mag.kind = "Err" THEN mag
    ELSE Ok([minus |-> neg /\ mag.val # <<>>, mag |-> mag.val])

\* BigUint::to_bytes_be: zero is the single byte 0.
to_bytes_be(mag) == IF mag = <<>> THEN <<0>> ELSE mag

RECURSIVE twos_complement_be(_)
\* Two's complement in place, from the least significant byte: the trailing
\* zero bytes stay, the first non-zero byte is negated, the rest inverted.
twos_complement_be(b) ==
    IF b = <<>> THEN <<>>
    ELSE LET last == b[Len(b)]
             rest == SubSeq(b, 1, Len(b) - 1) IN
         IF last = 0 THEN Append(twos_complement_be(rest), 0)
         ELSE Append([i \in 1..Len(rest) |-> 255 - rest[i]], 256 - last)

\* BigInt::to_signed_bytes_be: the shortest two's-complement form.
to_signed_bytes_be(num) ==
    LET bytes == to_bytes_be(num.mag)
        first_byte == bytes[1]
        ext == IF first_byte > 127
                  /\ ~(first_byte = 128
                       /\ (\A i \in 2..Len(bytes) : bytes[i] = 0)
                       /\ num.minus)
               THEN <<0>> \o bytes ELSE bytes IN
    IF num.minus THEN twos_complement_be(ext) ELSE ext

\* ------------------------------------------------------------------- hex

HexLower == <<"0", "1", "2", "3", "4", "5", "6", "7", "8", "9",
              "a", "b", "c", "d", "e", "f">>
HexUpper == <<"0", "1", "2", "3", "4", "5", "6", "7", "8", "9",
              "A", "B", "C", "D", "E", "F">>

IsHexChar(c) == \E i \in 1..16 : HexLower[i] = c \/ HexUpper[i] = c

HexVal(c) == (CHOOSE i \in 1..16 : HexLower[i] = c \/ HexUpper[i] = c) - 1

\* hex::decode: an odd length is refused before any character is looked at.
hex_decode(s) ==
    IF Len(s) % 2 # 0 THEN Err("Odd number of digits")
    ELSE IF \E i \in 1..Len(s) : ~IsHexChar(s[i])
    THEN Err("Invalid character")
    ELSE Ok([i \in 1..(Len(s) \div 2) |->
                16 * HexVal(s[2 * i - 1]) + HexVal(s[2 * i])])

\* hex::encode: lower case, two characters a byte.
hex_encode(b) ==
    [i \in 1..(2 * Len(b)) |->
        IF i % 2 = 1 THEN HexLower[(b[(i + 1) \div 2] \div 16) + 1]
        ELSE HexLower[(b[i \div 2] % 16) + 1]]

P_0x == <<"0", "x">>

\* util::decode_hex
decode_hex(input) ==
    LET stripped == IF StartsWith(input, P_0x)
                    THEN TrimStartMatches(input, P_0x) ELSE input IN
    hex_decode(stripped)

\* util::encode_hex
encode_hex(input) == P_0x \o hex_encode(input)

\* -------------------------------------------------------- packed encoders
\* Each encoder takes the value string and the buffer (buf: &mut Vec<u8>)
\* and gives what it returned (res: Ok(()), Err(error) or Panic) together
\* with the buffer as the call left it (buf).  Vec<u8>'s write cannot fail,
\* so the ? after buf.write never returns.

S_true == <<"t", "r", "u", "e">>
S_false == <<"f", "a", "l", "s", "e">>

\* Ok(()) with the buffer the call left.
Done(b) == [res |-> Ok(<<>>), buf |-> b]

\* return Err(e), the buffer being b at that point.
Fail(e, b) == [res |-> Err(e), buf |-> b]

\* The call unwinds, the buffer being b at that point.
Unwind(b) == [res |-> Panic, buf |-> b]

\* vec![0; n]
Zeros(n) == [i \in 1..n |-> 0]

\* encode_packed_address without the test of the length.
encode_packed_address_any_length(data, buf) ==
    LET dec == decode_hex(data) IN
    IF dec.kind = "Err" THEN Fail(FromHexError(dec.err), buf)
    ELSE Done(buf \o dec.val)

\* encode_packed_address writing the decoded bytes before it tests their
\* number.
encode_packed_address_write_first(data, buf) ==
    LET dec == decode_hex(data) IN
    IF dec.kind = "Err" THEN Fail(FromHexError(dec.err), buf)
    ELSE IF Len(dec.val) # 20
    THEN Fail(InvalidValue("invalid address"), buf \o dec.val)
    ELSE Done(buf \o dec.val)

encode_packed_address(data, buf) ==
    LET dec == decode_hex(data) IN
    IF dec.kind = "Err" THEN Fail(FromHexError(dec.err), buf)
    ELSE IF Len(dec.val) # 20 THEN Fail(InvalidValue("invalid address"), buf)
    ELSE Done(buf \o dec.val)

\* encode_packed_bool storing its byte as the whole buffer.
encode_packed_bool_overwrite(data, buf) ==
    IF data = S_true THEN Done(<<1>>)
    ELSE IF data = S_false THEN Done(<<0>>)
    ELSE Fail(InvalidValue("invalid boolean value"), buf)

encode_packed_bool(data, buf) ==
    IF data = S_true THEN Done(Append(buf, 1))
    ELSE IF data = S_false THEN Done(Append(buf, 0))
    ELSE Fail(InvalidValue("invalid boolean value"), buf)

\* The printable ASCII characters, from the space (byte 32) to the tilde
\* (126); the double quote (34), the backslash (92) and the backtick (96)
\* are spelled out.
Ascii ==
    <<" ", "!", "<quote>", "#", "$", "%", "&", "'", "(", ")", "*", "+",
      ",", "-", ".", "/", "0", "1", "2", "3", "4", "5", "6", "7",
      "8", "9", ":", ";", "<", "=", ">", "?", "@", "A", "B", "C",
      "D", "E", "F", "G", "H", "I", "J", "K", "L", "M", "N", "O",
      "P", "Q", "R", "S", "T", "U", "V", "W", "X", "Y", "Z", "[",
      "<backslash>", "]", "^", "_", "<backtick>", "a", "b", "c", "d", "e", "f", "g",
      "h", "i", "j", "k", "l", "m", "n", "o", "p", "q", "r", "s",
      "t", "u", "v", "w", "x", "y", "z", "{", "|", "}", "~">>

\* str::as_bytes of one ASCII character.
ByteOf(c) == (CHOOSE i \in 1..Len(Ascii) : Ascii[i] = c) + 31

\* The bytes of the string, as they are: no length, no padding.
encode_packed_string(data, buf) ==
    Done(buf \o [i \in 1..Len(data) |-> ByteOf(data[i])])

\* (size / 8) as usize - b.len() is an unsigned subtraction: when b is
\* longer than size / 8 bytes a debug build panics on the overflow and a
\* release build wraps to a length above isize::MAX, on which vec! panics
\* ("capacity overflow").  Either build unwinds before buf.write; no Err is
\* returned.
\* encode_packed_uintn without the left padding: the bytes of the number as
\* num-bigint gives them.
encode_packed_uintn_unpadded(data, size, buf) ==
    LET num == BigUint_from_str(data) IN
    IF num.kind = "Err" THEN Fail(FromParseBigIntError(num.err), buf)
    ELSE LET b == to_bytes_be(num.val) IN
         IF (size \div 8) - Len(b) < 0 THEN Unwind(buf)
         ELSE Done(buf \o b)

encode_packed_uintn(data, size, buf) ==
    LET num == BigUint_from_str(data) IN
    IF num.kind = "Err" THEN Fail(FromParseBigIntError(num.err), buf)
    ELSE LET b == to_bytes_be(num.val) IN
         IF (size \div 8) - Len(b) < 0 THEN Unwind(buf)
         ELSE Done(buf \o Zeros((size \div 8) - Len(b)) \o b)

encode_packed_intn(data, size, buf) ==
    LET num == BigInt_from_str(data) IN
    IF num.kind = "Err" THEN Fail(FromParseBigIntError(num.err), buf)
    ELSE LET b == to_signed_bytes_be(num.val) IN
         IF (size \div 8) - Len(b) < 0 THEN Unwind(buf)
         ELSE Done(buf \o Zeros((size \div 8) - Len(b)) \o b)

encode_packed_bytes(data, buf) ==
    LET data_buf == decode_hex(data) IN
    IF data_buf.kind = "Err" THEN Fail(FromHexError(data_buf.err), buf)
    ELSE Done(buf \o data_buf.val)

\* encode_packed_bytesn refusing only a value that is too long.
encode_packed_bytesn_atmost(data, size, buf) ==
    LET data_buf == decode_hex(data) IN
    IF data_buf.kind = "Err" THEN Fail(FromHexError(data_buf.err), buf)
    ELSE IF Len(data_buf.val) > size THEN Fail(ByteSizeMismatch, buf)
    ELSE Done(buf \o data_buf.val)

encode_packed_bytesn(data, size, buf) ==
    LET data_buf == decode_hex(data) IN
    IF data_buf.kind = "Err" THEN Fail(FromHexError(data_buf.err), buf)
    ELSE IF Len(data_buf.val) # size THEN Fail(ByteSizeMismatch, buf)
    ELSE Done(buf \o data_buf.val)

\* ABIField::encode_packed taking a descriptor without an encoder for a
\* value that encodes to nothing.
encode_packed_fixed_silent(self, data, buf) ==
    CASE self.tag = "Address" -> encode_packed_address(data, buf)
      [] self.tag = "String" -> encode_packed_string(data, buf)
      [] self.tag = "UintN" -> encode_packed_uintn(data, self.size, buf)
      [] self.tag = "IntN" -> encode_packed_intn(data, self.size, buf)
      [] self.tag = "Bytes" -> encode_packed_bytes(data, buf)
      [] self.tag = "BytesN" -> encode_packed_bytesn(data, self.size, buf)
      [] self.tag = "Boolean" -> encode_packed_bool(data, buf)
      [] OTHER -> Done(buf)

\* ABIField::encode_packed
encode_packed(self, data, buf) ==
    CASE self.tag = "Address" -> encode_packed_address(data, buf)
      [] self.tag = "String" -> encode_packed_string(data, buf)
      [] self.tag = "UintN" -> encode_packed_uintn(data, self.size, buf)
      [] self.tag = "IntN" -> encode_packed_intn(data, self.size, buf)
      [] self.tag = "Bytes" -> encode_packed_bytes(data, buf)
      [] self.tag = "BytesN" -> encode_packed_bytesn(data, self.size, buf)
      [] self.tag = "Boolean" -> encode_packed_bool(data, buf)
      [] OTHER -> Fail(Unimplemented, buf)

\* No descriptor: encode_field returned before it parsed a type name.
NoParse == [kind |-> "None"]

\* What encode_field gives when the type name parsed to d and
\* d.encode_packed(values[1], buf) gave e.
Encoded(d, e) == [out |-> e.res, parsed |-> d, buf |-> e.buf]

\* encode_field refusing only a token with no colon.
encode_field_at_least_two(field, buf) ==
    LET values == Split(field, ":") IN
    IF Len(values) < 2
    THEN [out |-> Err(InvalidFieldDefinition), parsed |-> NoParse, buf |-> buf]
    ELSE LET d == from_str(values[1]) IN
         IF d.kind = "Err" THEN [out |-> d, parsed |-> d, buf |-> buf]
         ELSE Encoded(d, encode_packed(d.val, values[2], buf))

\* encode_field: what it returned (out), the descriptor it parsed (parsed)
\* and the caller's buffer as the call left it (buf).
encode_field(field, buf) ==
    LET values == Split(field, ":") IN
    IF Len(values) # 2
    THEN [out |-> Err(InvalidFieldDefinition), parsed |-> NoParse, buf |-> buf]
    ELSE LET d == from_str(values[1]) IN
         IF d.kind = "Err" THEN [out |-> d, parsed |-> d, buf |-> buf]
         ELSE Encoded(d, encode_packed(d.val, values[2], buf))

\* ----------------------------------------------------------- the program
\* One run of encode_abi_packed(data).

VARIABLES
    data,      \* the argument: the whole field specification
    fields,    \* data.split(","): the field tokens, left to right
    pos,       \* the index of the next field of the for loop
    buf,       \* the output buffer
    parsed,    \* the descriptor the last encode_field call parsed, if any
    result     \* Running, or what the call returned: Ok(bytes), Err(error),
               \* or Panic (it did not return)

vars == <<data, fields, pos, buf, parsed, result>>

Running == [kind |-> "Running"]

\* The two panics of the width subtraction: a debug build's overflow check,
\* a release build's vec! of a wrapped length.
PanicMessages == {"attempt to subtract with overflow", "capacity overflow"}

\* The state on entry to encode_abi_packed(d).
Start(d) ==
    /\ data = d
    /\ fields = Split(data, ",")
    /\ pos = 1
    /\ buf = <<>>
    /\ parsed = NoParse
    /\ result = Running

\* One turn of the for loop: encode_field(field, &mut buf)?
EncodeField ==
    /\ result = Running
    /\ pos <= Len(fields)
    /\ LET r == encode_field(fields[pos], buf) IN
       /\ parsed' = r.parsed
       /\ buf' = r.buf
       /\ IF r.out.kind = "Ok"
          THEN /\ pos' = pos + 1
               /\ result' = Running
          ELSE IF r.out.kind = "Err"
          THEN /\ result' = r.out
               /\ UNCHANGED pos
          ELSE /\ \E msg \in PanicMessages :
                    result' = [kind |-> "Panic", msg |-> msg]
               /\ UNCHANGED pos
    /\ UNCHANGED <<data, fields>>

\* The loop is over: Ok(buf)
Return ==
    /\ result = Running
    /\ pos > Len(fields)
    /\ result' = Ok(buf)
    /\ UNCHANGED <<data, fields, pos, buf, parsed>>

Next == EncodeField \/ Return

\* ------------------------------------------------------------ the inputs

RECURSIVE Join(_, _)
\* The tokens with sep between them.
Join(toks, sep) ==
    IF Len(toks) = 1 THEN toks[1]
    ELSE toks[1] \o <<sep>> \o Join(Tail(toks), sep)

Tok(name, value) == name \o <<":">> \o value

\* n copies of the string s.
Repeat(s, n) == [i \in 1..(n * Len(s)) |-> s[((i - 1) % Len(s)) + 1]]

T_uint8 == P_uint \o <<"8">>
T_int16 == P_int \o <<"1", "6">>
\* The address literal of the specification's end-to-end example: 38 hex
\* characters.
A_38 == P_0x \o Repeat(<<"0">>, 36) \o <<"f", "f">>
\* The 20-byte address 0x00..00ff: 40 hex characters.
A_40 == P_0x \o Repeat(<<"0">>, 38) \o <<"f", "f">>

Tokens ==
    { Tok(T_uint8, <<"5">>),
      Tok(S_bool, S_true),
      Tok(S_address, A_38),
      Tok(S_address, A_40),
      T_uint8 \o <<"-", "5">>,
      <<>>,
      Tok(S_bool, S_true) \o <<":">>,
      Tok(S_bool, <<"T", "r", "u", "e">>),
      Tok(T_uint8, <<"2", "5", "6">>),
      Tok(T_int16, <<"-", "1">>),
      Tok(S_string, <<"h", "i">>),
      Tok(P_bytes, P_0x \o <<"d", "e", "a", "d">>),
      Tok(P_fixed \o <<"1", "2", "8", "x", "1", "8">>, <<"1">>) }

FieldLists == UNION {[1..n -> Tokens] : n \in 1..MaxFields}

Inputs == {Join(l, ",") : l \in FieldLists}

Init == \E d \in Inputs : Start(d)

Spec == Init /\ [][Next]_vars

\* ------------------------------------------- decimal arithmetic (checks)
\* The claims speak of the integer a decimal string denotes.  That integer
\* is kept in base 10000 (four decimal digits a limb, most significant
\* first, no leading zero limb, zero the empty sequence) and the arithmetic
\* below is decimal: it shares nothing with the base-256 conversion the
\* encoders are made of.

IsDecimal(s) == s # <<>> /\ \A i \in 1..Len(s) : IsDigit(s[i])

\* d without its leading zeros.
StripZeros(d) ==
    IF \A i \in 1..Len(d) : d[i] = 0 THEN <<>>
    ELSE LET f == CHOOSE i \in 1..Len(d) :
                      d[i] # 0 /\ \A j \in 1..(i - 1) : d[j] = 0
         IN SubSeq(d, f, Len(d))

\* The number a string of decimal digits denotes.
DecOfStr(s) ==
    LET n == Len(s)
        L == (n + 3) \div 4
        dg(j) == IF j >= 1 THEN DigitVal(s[j]) ELSE 0
        limb(k) == LET hi == n - 4 * (L - k) IN
                   dg(hi - 3) * 1000 + dg(hi - 2) * 100 + dg(hi - 1) * 10
                   + dg(hi)
    IN StripZeros([k \in 1..L |-> limb(k)])

\* The decimal numeral of a number.
StrOfDec(d) ==
    IF d = <<>> THEN <<"0">>
    ELSE LET dig(i) == LET l == d[((i - 1) \div 4) + 1]
                           j == (i - 1) % 4 IN
                       IF j = 0 THEN l \div 1000
                       ELSE IF j = 1 THEN (l \div 100) % 10
                       ELSE IF j = 2 THEN (l \div 10) % 10
                       ELSE l % 10
             ds == StripZeros([i \in 1..(4 * Len(d)) |-> dig(i)])
         IN [i \in 1..Len(ds) |-> Digits[ds[i] + 1]]

RECURSIVE NatLimbs(_)
NatLimbs(n) == IF n = 0 THEN <<>> ELSE Append(NatLimbs(n \div 10000), n % 10000)

RECURSIVE DecMulAdd(_, _, _)
\* d * m + c, for m <= 65536
DecMulAdd(d, m, c) ==
    IF d = <<>> THEN NatLimbs(c)
    ELSE LET t == d[Len(d)] * m + c IN
         Append(DecMulAdd(SubSeq(d, 1, Len(d) - 1), m, t \div 10000), t % 10000)

RECURSIVE DecAddC(_, _, _)
DecAddC(a, b, c) ==
    IF a = <<>> /\ b = <<>> THEN NatLimbs(c)
    ELSE LET x == IF a = <<>> THEN 0 ELSE a[Len(a)]
             y == IF b = <<>> THEN 0 ELSE b[Len(b)]
             ra == IF a = <<>> THEN <<>> ELSE SubSeq(a, 1, Len(a) - 1)
             rb == IF b = <<>> THEN <<>> ELSE SubSeq(b, 1, Len(b) - 1)
             t == x + y + c IN
         Append(DecAddC(ra, rb, t \div 10000), t % 10000)

\* a + b
DecAdd(a, b) == DecAddC(a, b, 0)

\* a < b
DecLess(a, b) ==
    \/ Len(a) < Len(b)
    \/ /\ Len(a) = Len(b)
       /\ \E i \in 1..Len(a) :
              a[i] < b[i] /\ \A j \in 1..(i - 1) : a[j] = b[j]

RECURSIVE DecOfBytesFrom(_, _, _)
\* Two bytes a step: acc * 65536 + (b[i] * 256 + b[i+1]).
DecOfBytesFrom(b, i, acc) ==
    IF i > Len(b) THEN acc
    ELSE LET next == DecMulAdd(acc, 65536, b[i] * 256 + b[i + 1]) IN
         IF Len(next) >= 0 THEN DecOfBytesFrom(b, i + 2, next) ELSE <<>>

\* The number the bytes b are, read as a big-endian unsigned integer.
DecOfBytes(b) ==
    IF Len(b) % 2 = 1 THEN DecOfBytesFrom(b, 2, NatLimbs(b[1]))
    ELSE DecOfBytesFrom(b, 1, <<>>)

\* 256^k for k in 0..32, computed once.
Pow256Tab == [k \in 0..32 |-> DecOfBytes(<<1>> \o [i \in 1..k |-> 0])]

\* 2^bits and 2^(bits-1), for bits a multiple of 8.
Pow2(bits) == Pow256Tab[bits \div 8]
HalfPow2(bits) == DecMulAdd(Pow256Tab[(bits \div 8) - 1], 128, 0)

\* d - 1 and d + 1 for a power of two d > 1: its last digit is 2, 4, 6 or 8.
PredPow(d) == [d EXCEPT ![Len(d)] = d[Len(d)] - 1]
SuccPow(d) == [d EXCEPT ![Len(d)] = d[Len(d)] + 1]

\* --------------------------------------------- integer fields: the inputs

\* The widths of uintN and intN: 8, 16, ..., 256.
Sizes == {8 * k : k \in 1..32}

SmallNumerals == {NatToStr(v) : v \in 0..MaxValue}

\* Around the ends of the ranges of the width: 2^size - 1, 2^size,
\* 2^(size-1) - 1, 2^(size-1), 2^(size-1) + 1.
Boundary(size) ==
    { StrOfDec(PredPow(Pow2(size))), StrOfDec(Pow2(size)),
      StrOfDec(PredPow(HalfPow2(size))), StrOfDec(HalfPow2(size)),
      StrOfDec(SuccPow(HalfPow2(size))) }

Magnitudes(size) ==
    SmallNumerals \cup Boundary(size) \cup {<<"0", "0", "7">>, <<"0", "0">>}

IntValues(size) ==
    Magnitudes(size)
    \cup {<<"-">> \o m : m \in Magnitudes(size)}
    \cup {<<>>, <<"-">>, <<"1", "a">>, <<"+", "5">>, <<"0", "x", "1">>}

InitIntN ==
    \E p \in {P_uint, P_int}, size \in Sizes :
        \E v \in IntValues(size) : Start(Tok(p \o NatToStr(size), v))

\* One uintN or intN field, of every width, with the values above.
SpecIntN == InitIntN /\ [][Next]_vars

\* ------------------------------------------------- what a state is about

\* The first field of the input, taken apart at its first colon (used where
\* the input is one field with one colon).
ColonAt == CHOOSE i \in 1..Len(data) :
               data[i] = ":" /\ \A j \in 1..(i - 1) : data[j] # ":"
In_name == SubSeq(data, 1, ColonAt - 1)
In_value == SubSeq(data, ColonAt + 1, Len(data))

\* The first field has been through encode_field.
FirstDone == pos > 1 \/ result # Running

\* The call is over.
Finished == result # Running

\* The value is "-" and a decimal numeral.
IsNegDecimal(v) == v # <<>> /\ v[1] = "-" /\ IsDecimal(Tail(v))

\* ------------------------------------------------------------- C1 .. C3

\* C1: for every width and every 0 <= v < 2^size written in decimal digits,
\* encoding v as uintN succeeds, the buffer (empty before) holds exactly
\* size/8 bytes after it, and those bytes, read as a big-endian unsigned
\* integer, are v; the call returns those bytes.
C1_UintRoundTrip ==
    \A size \in Sizes :
        (/\ In_name = P_uint \o NatToStr(size)
         /\ IsDecimal(In_value)
         /\ DecLess(DecOfStr(In_value), Pow2(size))
         /\ FirstDone)
        => /\ result.kind \in {"Running", "Ok"}
           /\ pos = 2
           /\ Len(buf) = size \div 8
           /\ DecOfBytes(buf) = DecOfStr(In_value)
           /\ (result.kind = "Ok" => result.val = buf)

\* The largest value of the widest type has been encoded.
C1_Witness ==
    /\ In_name = P_uint \o NatToStr(256)
    /\ In_value = StrOfDec(PredPow(Pow2(256)))
    /\ result.kind = "Ok"
    /\ Len(result.val) = 32

\* bytes is the two's-complement form, on Len(bytes) bytes, of the integer
\* the string v denotes.
IsTwosComplementOf(bytes, v) ==
    LET neg == v[1] = "-"
        mag == DecOfStr(IF neg THEN Tail(v) ELSE v) IN
    IF neg /\ mag # <<>>
    THEN bytes[1] >= 128
         /\ DecAdd(DecOfBytes(bytes), mag) = Pow2(8 * Len(bytes))
    ELSE bytes[1] < 128 /\ DecOfBytes(bytes) = mag

\* -2^(size-1) <= v < 2^(size-1)
InIntRange(v, size) ==
    IF v[1] = "-" THEN ~DecLess(HalfPow2(size), DecOfStr(Tail(v)))
    ELSE DecLess(DecOfStr(v), HalfPow2(size))

\* C2 (as claimed): for every width and every -2^(size-1) <= v < 2^(size-1)
\* written in decimal, encoding v as intN succeeds, leaves size/8 bytes, and
\* their two's-complement decode is v.
C2_IntRoundTrip ==
    \A size \in Sizes :
        (/\ In_name = P_int \o NatToStr(size)
         /\ (IsDecimal(In_value) \/ IsNegDecimal(In_value))
         /\ InIntRange(In_value, size)
         /\ FirstDone)
        => /\ result.kind \in {"Running", "Ok"}
           /\ Len(buf) = size \div 8
           /\ IsTwosComplementOf(buf, In_value)

\* C3 (as claimed): a uintN or intN value that does not fit size/8 bytes
\* makes the call return an InvalidValue error with nothing appended; it
\* never panics.
C3_OverflowIsError ==
    \A size \in Sizes :
        (/\ \/ /\ In_name = P_uint \o NatToStr(size)
               /\ IsDecimal(In_value)
               /\ ~DecLess(DecOfStr(In_value), Pow2(size))
            \/ /\ In_name = P_int \o NatToStr(size)
               /\ (IsDecimal(In_value) \/ IsNegDecimal(In_value))
               /\ ~InIntRange(In_value, size)
         /\ FirstDone)
        => /\ result.kind = "Err"
           /\ result.err.tag = "InvalidValue"
           /\ buf = <<>>

\* ------------------------------------------------------ bytesN: C4

\* The sizes of bytesN.
BytesSizes == 1..32

\* Two hex characters (one of each case) and one that is not hex.
HexAlphabet == {"a", "F", "g"}

ShortHex == UNION {[1..n -> HexAlphabet] : n \in 0..MaxHexLen}

\* The first n characters of 0b7E0b7E...
HexPattern(n) == SubSeq(Repeat(<<"0", "b", "7", "E">>, (n \div 4) + 1), 1, n)

\* Hex strings of the right length for bytesN, and around it.
NearHex(size) ==
    {HexPattern(n) : n \in {2 * size - 2, 2 * size - 1, 2 * size,
                            2 * size + 1, 2 * size + 2}}

BytesValues(size) ==
    LET hs == ShortHex \cup NearHex(size) IN
    hs \cup {P_0x \o h : h \in hs} \cup {P_0x \o P_0x \o HexPattern(2 * size)}

InitBytesN ==
    \E size \in BytesSizes :
        \E v \in BytesValues(size) : Start(Tok(P_bytes \o NatToStr(size), v))

\* One bytesN field, of every size, with the values above.
SpecBytesN == InitBytesN /\ [][Next]_vars

\* The value without one leading "0x".
HexPart(v) == IF StartsWith(v, P_0x) THEN SubSeq(v, 3, Len(v)) ELSE v

IsHexString(h) == \A i \in 1..Len(h) : IsHexChar(h[i])

\* h with its upper-case hex digits in lower case.
LowerHex(h) == [i \in 1..Len(h) |-> HexLower[HexVal(h[i]) + 1]]

\* C4 (as claimed): a value of exactly 2*size hex characters is appended as
\* its bytes, and a hex value of any other length, odd lengths included,
\* fails with ByteSizeMismatch.
C4_AnyOtherLengthMismatch ==
    \A size \in BytesSizes :
        (/\ In_name = P_bytes \o NatToStr(size)
         /\ IsHexString(HexPart(In_value))
         /\ FirstDone)
        => IF Len(HexPart(In_value)) = 2 * size
           THEN /\ result.kind \in {"Running", "Ok"}
                /\ hex_encode(buf) = LowerHex(HexPart(In_value))
           ELSE result = Err(ByteSizeMismatch) /\ buf = <<>>

\* C4 (amended): a value of exactly 2*size hex characters (after an optional
\* 0x) is appended as its size bytes; one of any other even length fails
\* with ByteSizeMismatch; one of odd length fails in the hex decoding, with
\* IOError.  A failure appends nothing.
C4_BytesN ==
    \A size \in BytesSizes :
        (/\ In_name = P_bytes \o NatToStr(size)
         /\ IsHexString(HexPart(In_value))
         /\ FirstDone)
        => IF Len(HexPart(In_value)) = 2 * size
           THEN /\ result.kind \in {"Running", "Ok"}
                /\ pos = 2
                /\ Len(buf) = size
                /\ hex_encode(buf) = LowerHex(HexPart(In_value))
                /\ (result.kind = "Ok" => result.val = buf)
           ELSE IF Len(HexPart(In_value)) % 2 = 0
           THEN result = Err(ByteSizeMismatch) /\ buf = <<>>
           ELSE result = Err(IOError) /\ buf = <<>>

\* A 32-byte value, written with 0x, has been encoded as bytes32.
C4_Witness ==
    /\ In_name = P_bytes \o NatToStr(32)
    /\ In_value = P_0x \o HexPattern(64)
    /\ result.kind = "Ok"
    /\ Len(result.val) = 32

\* ------------------------------------------- type names: C6, C7, C8

\* What may follow "int", "uint" or "bytes": nothing, the numerals
\* 0..MaxSizeArg, every legal width, numerals around 256 and around 2^16,
\* and strings that are no numeral.
BigNumerals ==
    { NatToStr(255), NatToStr(257), NatToStr(264), NatToStr(1000),
      NatToStr(65535), NatToStr(65536), NatToStr(99999),
      StrOfDec(Pow2(64)) }

NotNumerals ==
    { <<"+", "8">>, <<"-", "8">>, <<"8", "x">>, <<"x">>, <<" ", "8">>,
      P_bytes \o <<"3", "2">>, P_int \o <<"8">>, P_uint \o <<"8">> }

SizeArgs ==
    {<<>>, <<"0", "0">>, <<"0", "0", "8">>}
    \cup {NatToStr(n) : n \in 0..MaxSizeArg}
    \cup {NatToStr(n) : n \in Sizes}
    \cup BigNumerals \cup NotNumerals

\* What may follow "fixed" or "ufixed": MxN, and bodies that are not MxN.
FixedM ==
    {NatToStr(n) : n \in 0..MaxSizeArg}
    \cup {NatToStr(n) : n \in {127, 128, 248, 256, 257, 264, 65535, 65536}}

FixedN_Args ==
    {NatToStr(n) : n \in {0, 1, 18, 79, 80, 81, 256, 65535, 65536}}

FixedArgs ==
    {m \o <<"x">> \o n : m \in FixedM, n \in FixedN_Args}
    \cup { <<>>, <<"1", "2", "8">>, <<"1", "2", "8", "x">>, <<"x", "1", "8">>,
           <<"1", "2", "8", "x", "1", "8", "x", "1">>,
           <<"1", "2", "8", "X", "1", "8">> }

TypeNames ==
    {p \o r : p \in {P_int, P_uint, P_bytes}, r \in SizeArgs}
    \cup {p \o r : p \in {P_fixed, P_ufixed}, r \in FixedArgs}
    \cup {S_address, S_bool, S_string, <<"f", "o", "o">>, <<>>}

InitParse ==
    \E name \in TypeNames, v \in {<<"1">>, <<"0", "0">>} : Start(Tok(name, v))

\* One field of every type name above.
SpecParse == InitParse /\ [][Next]_vars

\* The number a decimal numeral denotes when it is at most 65535, and 65536
\* for every larger one.
SizeOf(r) ==
    LET d == DecOfStr(r) IN
    IF d = <<>> THEN 0
    ELSE IF Len(d) = 1 THEN d[1]
    ELSE IF Len(d) = 2 /\ d[1] * 10000 + d[2] <= 65535
    THEN d[1] * 10000 + d[2]
    ELSE 65536

\* What follows the prefix p in the type name of the input.
Rest(p) == SubSeq(In_name, Len(p) + 1, Len(In_name))

\* The type name of the input is p followed by nothing or by a numeral.
IsSizedName(p) ==
    StartsWith(In_name, p) /\ (Rest(p) = <<>> \/ IsDecimal(Rest(p)))

\* C6 (as claimed): after "int" or "uint", nothing or 0 gives width 256, a
\* multiple of 8 in 1..256 gives that width, and every other numeral,
\* those above 65535 included, gives InvalidSize.
C6_EveryOtherNumeralInvalidSize ==
    \A p \in {P_int, P_uint} :
        (IsSizedName(p) /\ FirstDone)
        => LET n == IF Rest(p) = <<>> THEN 0 ELSE SizeOf(Rest(p))
               mk(w) == IF p = P_int THEN IntN(w) ELSE UintN(w) IN
           IF n = 0 THEN parsed = Ok(mk(256))
           ELSE IF n <= 256 /\ n % 8 = 0 THEN parsed = Ok(mk(n))
           ELSE parsed.kind = "Err" /\ parsed.err.tag = "InvalidSize"

\* C6 (amended): after "int" or "uint", nothing or 0 gives width 256, a
\* multiple of 8 in 1..256 gives that width, every other numeral up to
\* 65535 gives InvalidSize of that number, and a numeral above 65535 (not a
\* u16) gives InvalidValue.
C6_ParseIntUint ==
    \A p \in {P_int, P_uint} :
        (IsSizedName(p) /\ FirstDone)
        => LET n == IF Rest(p) = <<>> THEN 0 ELSE SizeOf(Rest(p))
               mk(w) == IF p = P_int THEN IntN(w) ELSE UintN(w) IN
           IF n = 0 THEN parsed = Ok(mk(256))
           ELSE IF n <= 256 /\ n % 8 = 0 THEN parsed = Ok(mk(n))
           ELSE IF n <= 65535 THEN parsed = Err(InvalidSize(n))
           ELSE parsed.kind = "Err" /\ parsed.err.tag = "InvalidValue"

\* "uint7" has been refused with InvalidSize(7).
C6_Witness ==
    /\ In_name = P_uint \o <<"7">>
    /\ parsed = Err(InvalidSize(7))
    /\ result = Err(InvalidSize(7))

\* C7 (as claimed): after "bytes", nothing or 0 gives Bytes, a numeral in
\* 1..32 gives BytesN of it, a larger numeral gives InvalidSize, and
\* anything that is no numeral gives no descriptor.  Where the claim is
\* silent it is read in the code's favour: a "+" before the digits counts
\* as part of the numeral, and a numeral above 65535 may give any error.
C7_ParseBytes ==
    (StartsWith(In_name, P_bytes) /\ FirstDone)
    => LET r == Rest(P_bytes)
           digits == IF r # <<>> /\ r[1] = "+" THEN Tail(r) ELSE r IN
       IF r = <<>> THEN parsed = Ok(Bytes)
       ELSE IF ~IsDecimal(digits) THEN parsed.kind = "Err"
       ELSE IF SizeOf(digits) = 0 THEN parsed = Ok(Bytes)
       ELSE IF SizeOf(digits) <= 32 THEN parsed = Ok(BytesN(SizeOf(digits)))
       ELSE IF SizeOf(digits) <= 65535
       THEN parsed = Err(InvalidSize(SizeOf(digits)))
       ELSE parsed.kind = "Err"

\* The type name of the input is p, M, "x", N with numerals M and N.
IsFixedName(p) ==
    /\ StartsWith(In_name, p)
    /\ \E i \in 1..Len(Rest(p)) :
           /\ Rest(p)[i] = "x"
           /\ IsDecimal(SubSeq(Rest(p), 1, i - 1))
           /\ IsDecimal(SubSeq(Rest(p), i + 1, Len(Rest(p))))

FixedXAt(p) == CHOOSE i \in 1..Len(Rest(p)) : Rest(p)[i] = "x"

\* C8 (as claimed): "fixedMxN" and "ufixedMxN" give FixedN(M,N) and
\* UFixedN(M,N) when 8 <= M <= 256, M % 8 = 0 and N <= 80, InvalidSize(M)
\* when M is not such a width, and InvalidSize(N) when N > 80.  Read in the
\* code's favour where M or N is above 65535: any error will do.
C8_ParseFixed ==
    \A p \in {P_fixed, P_ufixed} :
        (IsFixedName(p) /\ FirstDone)
        => LET m == SizeOf(SubSeq(Rest(p), 1, FixedXAt(p) - 1))
               n == SizeOf(SubSeq(Rest(p), FixedXAt(p) + 1, Len(Rest(p))))
               mk(a, b) == IF p = P_fixed THEN FixedN(a, b) ELSE UFixedN(a, b)
           IN
           IF m > 65535 \/ n > 65535 THEN parsed.kind = "Err"
           ELSE IF m < 8 \/ m > 256 \/ m % 8 # 0
           THEN parsed = Err(InvalidSize(m))
           ELSE IF n > 80 THEN parsed = Err(InvalidSize(n))
           ELSE parsed = Ok(mk(m, n))

\* ------------------------------------------- field lists: C5, C9, C10

\* The end-to-end example of the specification, as written there:
\* "uint8:5,bool:true,address:0x000000000000000000000000000000000000ff"
SpecExample ==
    Join(<<Tok(T_uint8, <<"5">>), Tok(S_bool, S_true), Tok(S_address, A_38)>>,
         ",")

\* The same with a 20-byte address (40 hex characters).
Example40 ==
    Join(<<Tok(T_uint8, <<"5">>), Tok(S_bool, S_true), Tok(S_address, A_40)>>,
         ",")

\* 05 01 00 .. 00 ff: 22 bytes.
ExampleBytes == <<5, 1>> \o Zeros(19) \o <<255>>

\* C5 (as claimed): the example of the specification encodes to the 22
\* bytes 05 01 00..00 ff.
C5_ExampleEncodes ==
    (data = SpecExample /\ Finished) => result = Ok(ExampleBytes)

\* C5 (amended): the address of the example has 38 hex characters, 19
\* bytes, so the example fails with InvalidValue("invalid address") after
\* its first two fields; with the 40-character address 0x00..00ff the call
\* returns the 22 bytes 05 01 00..00 ff.
C5_Example ==
    /\ (data = SpecExample /\ Finished)
       => result = Err(InvalidValue("invalid address"))
    /\ (data = Example40 /\ Finished) => result = Ok(ExampleBytes)

\* The example of the specification has been refused at its third field.
C5_Witness ==
    /\ data = SpecExample
    /\ result.kind = "Err"
    /\ pos = 3
    /\ buf = <<5, 1>>

\* The number of colons of a token.
Colons(t) == Cardinality({i \in 1..Len(t) : t[i] = ":"})

\* The field the last encode_field call was given: the one that failed, or
\* else the one before the next.
LastField ==
    IF result.kind \in {"Err", "Panic"} THEN fields[pos] ELSE fields[pos - 1]

\* C9: a token without exactly one colon fails with InvalidFieldDefinition
\* before any type name is parsed; a token with exactly one colon reaches
\* the type parser; every field encoded so far had exactly one colon.
C9_FieldDefinition ==
    FirstDone
    => /\ IF Colons(LastField) # 1
          THEN result = Err(InvalidFieldDefinition) /\ parsed = NoParse
          ELSE parsed # NoParse
       /\ \A i \in 1..(pos - 1) : Colons(fields[i]) = 1

\* "uint8-5" has been refused.
C9_Witness ==
    /\ data = T_uint8 \o <<"-", "5">>
    /\ result = Err(InvalidFieldDefinition)
    /\ parsed = NoParse

\* The field, encoded on its own, does not succeed.
Fails(t) == encode_field(t, <<>>).out.kind # "Ok"

\* C10 (as claimed): when a field of the list fails, the call returns the
\* error of the leftmost failing field and went no further than that field.
C10_FirstFailure ==
    (Finished /\ \E i \in 1..Len(fields) : Fails(fields[i]))
    => LET k == CHOOSE i \in 1..Len(fields) :
                    Fails(fields[i]) /\ \A j \in 1..(i - 1) : ~Fails(fields[j])
       IN /\ result.kind = "Err"
          /\ pos = k


\* ------------------------------------------------ the output buffer: C11
\* The bytes one field token encodes to, taken alone: what encode_field
\* leaves in an empty buffer.
Encoding(t) == encode_field(t, <<>>).buf

\* The encodings of fields 1..k, one after the other, nothing between.
RECURSIVE EncodingsUpTo(_)
EncodingsUpTo(k) ==
    IF k = 0 THEN <<>> ELSE EncodingsUpTo(k - 1) \o Encoding(fields[k])

IsPrefix(a, b) == Len(a) <= Len(b) /\ SubSeq(b, 1, Len(a)) = a

\* Fields 1..pos-1 have been encoded: the buffer is their encodings in
\* field order, and the bytes returned are those of all the fields.
BufferIsConcatenation ==
    /\ buf = EncodingsUpTo(pos - 1)
    /\ result.kind = "Ok" =>
          /\ pos = Len(fields) + 1
          /\ result.val = EncodingsUpTo(Len(fields))

\* C11: during encode_abi_packed the buffer is append-only: after the k-th
\* field it is the concatenation, in field order, of the encodings of
\* fields 1..k; the buffer before a step is a prefix of the buffer after it;
\* on success the bytes returned are the concatenation of all the field
\* encodings, with no separator, length or framing.
C11_AppendOnly ==
    /\ []BufferIsConcatenation
    /\ [][IsPrefix(buf, buf')]_vars

\* Three fields were encoded, each to at least one byte, and returned.
C11_Witness ==
    /\ result.kind = "Ok"
    /\ Len(fields) = 3
    /\ \A i \in 1..3 : Encoding(fields[i]) # <<>>
    /\ fields[1] # fields[2]
    /\ Len(result.val) > 3

\* ------------------------------------------- fixed-point descriptors: C12
\* Type names of fixed-point fields, and "string" beside them, a type that
\* encodes every value.
FixedNames ==
    {P_fixed \o a : a \in {<<"8", "x", "0">>, <<"1", "6", "x", "1">>,
                           <<"1", "2", "8", "x", "1", "8">>,
                           <<"2", "5", "6", "x", "8", "0">>}}
    \cup {P_ufixed \o a : a \in {<<"8", "x", "0">>,
                                 <<"1", "2", "8", "x", "1", "8">>}}
    \cup {S_string}

\* Value strings: numerals, a fraction, hex, a word, nothing.
FixedValues ==
    { <<>>, <<"0">>, <<"1">>, <<"-", "1">>, <<"1", ".", "5">>,
      <<"0", "x", "0", "0">>, S_true, <<"a", "b", "c">>,
      StrOfDec(Pow2(128)) }

\* The fields before the field, and those after it.
FixedPrefixes ==
    { <<>>, <<Tok(T_uint8, <<"5">>)>>,
      <<Tok(S_string, <<"h", "i">>), Tok(S_bool, S_true)>> }

FixedSuffixes == { <<>>, <<Tok(S_bool, S_false)>> }

InitFixed ==
    \E name \in FixedNames, v \in FixedValues,
       pre \in FixedPrefixes, suf \in FixedSuffixes :
        Start(Join(pre \o <<Tok(name, v)>> \o suf, ","))

\* A fixed-point field among other fields.
SpecFixed == InitFixed /\ [][Next]_vars

\* The descriptors without an encoder.
FixedDescriptors ==
    {FixedN(m, n) : m \in {8, 128, 256}, n \in {0, 18, 80}}
    \cup {UFixedN(m, n) : m \in {8, 128, 256}, n \in {0, 18, 80}}

IsFixedDescriptor(d) == d.kind = "Ok" /\ d.val.tag \in {"FixedN", "UFixedN"}

\* C12: whenever the descriptor of a field is FixedN or UFixedN, encoding
\* the field fails with Unimplemented, whatever the value string, and
\* appends no bytes to the buffer: in the loop of encode_abi_packed, and for
\* ABIField::encode_packed applied to each such descriptor, value and buffer.
C12_FixedUnimplemented ==
    /\ [](\A d \in FixedDescriptors, v \in FixedValues,
             b \in {<<>>, <<5>>, <<104, 105, 1>>} :
               encode_packed(d, v, b) = Fail(Unimplemented, b))
    /\ [][(result = Running /\ pos <= Len(fields)
            /\ IsFixedDescriptor(parsed'))
          => (result' = Err(Unimplemented) /\ buf' = buf /\ pos' = pos)]_vars

\* A fixed-point field with a value that is no numeral has come after two
\* encoded fields and been refused.
C12_Witness ==
    /\ IsFixedDescriptor(parsed)
    /\ parsed.val = FixedN(128, 18)
    /\ Len(fields) >= 3
    /\ pos = 3
    /\ buf = <<104, 105, 1>>
    /\ fields[3] = Tok(P_fixed \o <<"1", "2", "8", "x", "1", "8">>,
                       <<"a", "b", "c">>)
    /\ result = Err(Unimplemented)

\* -------------------------------------------- descriptor invariants: C13
\* The data-model invariants of a descriptor.
WellFormed(d) ==
    CASE d.tag = "BytesN" -> 1 <= d.size /\ d.size <= 32
      [] d.tag \in {"IntN", "UintN"} ->
            d.size > 0 /\ d.size % 8 = 0 /\ d.size <= 256
      [] d.tag \in {"FixedN", "UFixedN"} ->
            /\ 8 <= d.m /\ d.m <= 256 /\ d.m % 8 = 0
            /\ 0 <= d.n /\ d.n <= 80
      [] OTHER -> d.tag \in {"Address", "Boolean", "String", "Bytes"}

\* C13: every descriptor the parser returns Ok for a type name satisfies
\* the data-model invariants: BytesN(size) has 1 <= size <= 32; IntN(bits)
\* and UintN(bits) have bits a positive multiple of 8, at most 256;
\* FixedN(bits, n) and UFixedN(bits, n) have 8 <= bits <= 256, bits a
\* multiple of 8 and 0 <= n <= 80.
C13_DescriptorsWellFormed ==
    /\ parsed.kind = "Ok" => WellFormed(parsed.val)
    /\ FirstDone => parsed = from_str(In_name)

\* The widest fixed-point name has been parsed.
C13_Witness ==
    /\ FirstDone
    /\ In_name = P_fixed \o <<"2", "5", "6", "x", "8", "0">>
    /\ parsed = Ok(FixedN(256, 80))

\* ------------------------------------------- the buffer on an error: C14
\* C14: whenever encode_field returns an error value (a malformed token, a
\* type name that does not parse, a value its encoder refuses), the buffer
\* the caller passed in is as it was before the call: no encoder writes a
\* byte before its validation is over.
C14_ErrorLeavesBuffer ==
    [][(result = Running /\ pos <= Len(fields) /\ result'.kind = "Err")
          => (buf' = buf /\ encode_field(fields[pos], buf).buf = buf)]_vars

\* After two encoded fields, an address of 19 bytes was decoded and refused.
C14_Witness ==
    /\ Len(fields) = 3
    /\ pos = 3
    /\ buf = <<5, 1>>
    /\ fields[3] = Tok(S_address, A_38)
    /\ decode_hex(A_38).kind = "Ok"
    /\ result = Err(InvalidValue("invalid address"))
=============================================================================
